---- MODULE Spec2Model ----
(***************************************************************************)
(* The OCR-System sheet service: GoogleSheetsService.processSheetData      *)
(* (find or create the user's spreadsheet in a Drive folder, ensure the    *)
(* category tab, append header and data rows) and the controller's         *)
(* appendToSheet handler.  Drive and Sheets are modelled as the remote     *)
(* state the calls read and write; every remote call is one atomic step    *)
(* that either takes effect and returns, or fails without effect.          *)
(* The service is modelled from the revision that takes the folder from    *)
(* FolderMapping[folderType]; the revision with the single BASE_FOLDER_ID  *)
(* runs the same calls in the same order against one fixed folder.         *)
(***************************************************************************)
EXTENDS Integers, Sequences, FiniteSets, TLC

VARIABLES
    files,      \* Drive: files[id] = [name, parent]; the id is the position
    books,      \* Sheets: books[id] = the tabs of spreadsheet id, [title, rows]
    req,        \* per request slot: pc, dto, folderType and the handler's locals
    submitted,  \* number of submissions so far
    failures,   \* number of remote calls that have failed so far
    ctl         \* the controller's handler: configuration, body, position, answer

vars == <<files, books, req, submitted, failures, ctl>>

(***************************************************************************)
(* Bounds                                                                  *)
(***************************************************************************)
MaxRequests == 2
MaxFailures == 1
MaxCtlRequests == 3

Procs == {"r1", "r2"}

(***************************************************************************)
(* HttpStatus                                                              *)
(***************************************************************************)
OK == 200
BAD_REQUEST == 400
INTERNAL_SERVER_ERROR == 500

(***************************************************************************)
(* Submitted records.  A record is an object given by its properties in    *)
(* creation order (<<key, value>> pairs, keys distinct), or null.          *)
(***************************************************************************)
Obj(props) == [isObject |-> TRUE, props |-> props]
Null == [isObject |-> FALSE, props |-> <<>>]

Arr(items) == [isArray |-> TRUE, items |-> items]
NotArray == [isArray |-> FALSE, items |-> <<>>]

\* keys that are canonical array indices
IsArrayIndex(k) == k \in {"0", "1", "2"}

IndexValue(k) == CASE k = "0" -> 0 [] k = "1" -> 1 [] k = "2" -> 2 [] OTHER -> -1

RECURSIVE AscendingIndex(_)
\* the index-keyed properties in ascending numeric order
AscendingIndex(props) ==
    IF props = <<>> THEN <<>>
    ELSE LET least == CHOOSE i \in 1..Len(props) :
                          \A j \in 1..Len(props) :
                              IndexValue(props[i][1]) <= IndexValue(props[j][1])
         IN  <<props[least]>> \o
             AscendingIndex([j \in 1..(Len(props) - 1) |->
                                IF j < least THEN props[j] ELSE props[j + 1]])

\* own enumerable properties in the order Object.keys / Object.values visit
\* them: integer keys ascending, then string keys in creation order
OwnProps(obj) ==
    AscendingIndex(SelectSeq(obj.props, LAMBDA pr : IsArrayIndex(pr[1])))
        \o SelectSeq(obj.props, LAMBDA pr : ~IsArrayIndex(pr[1]))

ObjectKeys(obj) == [i \in 1..Len(OwnProps(obj)) |-> OwnProps(obj)[i][1]]

ObjectValues(obj) == [i \in 1..Len(OwnProps(obj)) |-> OwnProps(obj)[i][2]]

\* Object.keys and Object.values throw a TypeError on null and undefined
ExtractHeadersThrows(data) == Len(data) = 0 \/ ~data[1].isObject

ExtractHeaders(data) == ObjectKeys(data[1])

MapDataToValuesThrows(data) == \E i \in 1..Len(data) : ~data[i].isObject

\* MapDataToValues visiting the records last to first
MapDataToValuesReversed(data) ==
    [i \in 1..Len(data) |-> ObjectValues(data[Len(data) + 1 - i])]

MapDataToValues(data) == [i \in 1..Len(data) |-> ObjectValues(data[i])]

(***************************************************************************)
(* Inputs                                                                  *)
(***************************************************************************)
ExampleData == Arr(<<Obj(<< <<"a", 1>>, <<"b", 2>> >>), Obj(<< <<"a", 3>>, <<"b", 4>> >>)>>)
IndexKeyData == Arr(<<Obj(<< <<"b", 5>>, <<"1", 6>> >>)>>)
NullData == Arr(<<Null>>)
EmptyData == Arr(<<>>)

Dto(u, t, d) == [username |-> u, imageType |-> t, imageData |-> d]

Request(dto, folderType) == [dto |-> dto, folderType |-> folderType]

ValidRequests ==
    { Request(Dto("al", "Farmer", ExampleData), "farmer"),
      Request(Dto("Al", "Farmer", IndexKeyData), "farmer"),
      Request(Dto("al", "Payslip", ExampleData), "farmer"),
      Request(Dto("al", "Farmer", NullData), "farmer"),
      Request(Dto("al", "Farmer", ExampleData), "payslip"),
      Request(Dto("bo", "Farmer", ExampleData), "farmer") }

InvalidRequests ==
    { Request(Dto("", "Farmer", ExampleData), "farmer"),
      Request(Dto("al", "", ExampleData), "farmer"),
      Request(Dto("al", "Farmer", NotArray), "farmer"),
      Request(Dto("al", "Farmer", EmptyData), "farmer"),
      Request(Dto("al", "Farmer", ExampleData), "unknown") }

Requests == ValidRequests \cup InvalidRequests

\* the submissions whose imageData is an array of records (no null element)
RecordRequests ==
    { request \in Requests :
        \A i \in 1..Len(request.dto.imageData.items) :
            request.dto.imageData.items[i].isObject }

\* config/folder-mapping: folder-type label -> Drive folder id ("" = no entry)
FolderMapping(folderType) ==
    CASE folderType = "farmer" -> "folderF"
      [] folderType = "payslip" -> "folderP"
      [] OTHER -> ""

ToUpperCase(s) ==
    CASE s = "al" -> "AL"
      [] s = "Al" -> "AL"
      [] s = "bo" -> "BO"
      [] OTHER -> s

SpreadsheetTitle(username) == ToUpperCase(username) \o "_MainSheet"

(***************************************************************************)
(* Remote state: Drive files and the tabs of each spreadsheet.  A row      *)
(* keeps its cells; site (which append of processSheetData wrote it) and   *)
(* keys (the keys of the record it came from) are bookkeeping for the      *)
(* properties and are never read by an action.                             *)
(***************************************************************************)
Row(cells, site, keys) == [cells |-> cells, site |-> site, keys |-> keys]

HeaderRows(data) == <<Row(ExtractHeaders(data), "headers", ExtractHeaders(data))>>

ValueRows(data) ==
    [i \in 1..Len(data) |->
        Row(MapDataToValues(data)[i], "values", ObjectKeys(data[i]))]

Includes(seq, x) == \E i \in 1..Len(seq) : seq[i] = x

\* DriveList with the parent folder left out of q
DriveListAnyFolder(title, folderId) ==
    { id \in 1..Len(files) : files[id].name = title }

\* drive.files.list with q: parent, name and spreadsheet MIME type
DriveList(title, folderId) ==
    { id \in 1..Len(files) :
        files[id].name = title /\ files[id].parent = folderId }

\* a spreadsheet created through Drive starts with the default tab
NewBook == <<[title |-> "Sheet1", rows |-> <<>>]>>

\* DriveCreate answering with the file of that title and folder when one exists
DriveCreateOnce(title, folderId) ==
    IF \E id \in 1..Len(files) :
           files[id].name = title /\ files[id].parent = folderId
    THEN [files |-> files, books |-> books,
          id |-> CHOOSE id \in 1..Len(files) :
                     files[id].name = title /\ files[id].parent = folderId]
    ELSE [files |-> Append(files, [name |-> title, parent |-> folderId]),
          books |-> Append(books, NewBook),
          id |-> Len(files) + 1]

\* drive.files.create: the remote state after it and the id of the new file
DriveCreate(title, folderId) ==
    [files |-> Append(files, [name |-> title, parent |-> folderId]),
     books |-> Append(books, NewBook),
     id |-> Len(files) + 1]

SheetTitles(id) == [i \in 1..Len(books[id]) |-> books[id][i].title]

TabRows(bk, id, title) ==
    LET i == CHOOSE j \in 1..Len(bk[id]) : bk[id][j].title = title
    IN  bk[id][i].rows

\* spreadsheets.batchUpdate addSheet
AddSheet(id, title) ==
    [books EXCEPT ![id] = Append(@, [title |-> title, rows |-> <<>>])]

\* spreadsheets.values.append to range title!A1: after the tab's last row
AppendRows(id, title, rows) ==
    [books EXCEPT ![id] =
        [i \in 1..Len(books[id]) |->
            IF books[id][i].title = title
            THEN [books[id][i] EXCEPT !.rows = @ \o rows]
            ELSE books[id][i]]]

(***************************************************************************)
(* The handler's position and locals                                       *)
(***************************************************************************)
NoResponse == [statusCode |-> 0, message |-> ""]

Idle ==
    [pc |-> "idle", dto |-> Dto("", "", NotArray), folderType |-> "",
     folderId |-> "", spreadsheetId |-> 0, existingSheetNames |-> <<>>,
     resp |-> NoResponse, calls |-> <<>>]

Call(step, api, ok, values) ==
    [step |-> step, api |-> api, ok |-> ok, values |-> values]

\* one remote call issued at the handler's current position
Logged(r, api, ok, values) ==
    [r EXCEPT !.calls = Append(@, Call(r.pc, api, ok, values))]

\* the early throws of processSheetData
Rejected(r, message) ==
    [r EXCEPT !.pc = "done",
              !.resp = [statusCode |-> BAD_REQUEST, message |-> message]]

\* Caught answering with the success payload instead of rethrowing
CaughtSwallowed(r, message) ==
    [r EXCEPT !.pc = "done",
              !.resp = [statusCode |-> OK,
                        message |-> "Data successfully appended to the sheet"]]

\* the catch of processSheetData
Caught(r, message) ==
    [r EXCEPT !.pc = "done",
              !.resp = [statusCode |-> INTERNAL_SERVER_ERROR,
                        message |-> "Error processing sheet data: " \o message]]

Returned(r) ==
    [r EXCEPT !.pc = "done",
              !.resp = [statusCode |-> OK,
                        message |-> "Data successfully appended to the sheet"]]

RemoteError == "remote error"

\* a remote call fails without effect
RemoteFails ==
    /\ failures < MaxFailures
    /\ failures' = failures + 1

\* IsInvalid without the test for an empty array
IsInvalidLengthUnchecked(dto) ==
    \/ dto.username = ""
    \/ dto.imageType = ""
    \/ ~dto.imageData.isArray

IsInvalid(dto) ==
    \/ dto.username = ""
    \/ dto.imageType = ""
    \/ ~dto.imageData.isArray
    \/ Len(dto.imageData.items) = 0

\* NeedsSheet answering that the tab is missing whatever the tab list holds
NeedsSheetAlways(existingSheetNames, imageType) == TRUE

NeedsSheet(existingSheetNames, imageType) ==
    ~Includes(existingSheetNames, imageType)

Data(p) == req[p].dto.imageData.items

(***************************************************************************)
(* GoogleSheetsController.appendToSheet                                    *)
(***************************************************************************)
NoError == [kind |-> "none", statusCode |-> 0, message |-> ""]

HttpException(message, statusCode) ==
    [kind |-> "HttpException", statusCode |-> statusCode, message |-> message]

Body(imageType) == [present |-> TRUE, imageType |-> imageType]
NoBody == [present |-> FALSE, imageType |-> ""]

CtlBodies == {NoBody, Body("Farmer"), Body("Payslip"), Body("")}

\* config/folder-mapping as the controller reads it ("" = entry missing)
CtlConfigs ==
    [farmCollectorSheet : {"", "sheetF"}, payslipCollectorSheet : {"", "sheetP"}]

CtlIdle(cfg) ==
    [cfg |-> cfg, pc |-> "idle", body |-> NoBody, sheetId |-> "",
     error |-> NoError, resp |-> NoResponse, logged |-> "", served |-> 0]

\* what appendDataToWorkbookSheet can answer: its payload, or a throw
ServiceReturns ==
    {[statusCode |-> OK, message |-> "Data successfully appended to the sheet"]}

ServiceThrows ==
    { HttpException("Missing or invalid required fields", BAD_REQUEST),
      HttpException("Error processing sheet data: remote error", INTERNAL_SERVER_ERROR),
      [kind |-> "Error", statusCode |-> 0, message |-> "remote error"] }

\* ControllerCatch rethrowing what it caught
ControllerCatchRethrows(error) ==
    [statusCode |-> IF error.kind = "HttpException" THEN error.statusCode
                    ELSE INTERNAL_SERVER_ERROR,
     message |-> error.message]

\* the handler's catch: log the message, answer with a new HttpException
ControllerCatch(error) ==
    [statusCode |-> INTERNAL_SERVER_ERROR,
     message |-> "An error occurred while processing the request"]

CtlThrown(c, error) ==
    [c EXCEPT !.pc = "done", !.error = error, !.logged = error.message,
              !.resp = ControllerCatch(error)]

SheetIdFor(cfg, imageType) ==
    IF imageType = "Farmer" THEN cfg.farmCollectorSheet
    ELSE cfg.payslipCollectorSheet

\* the handler from entry to its first await, or to its answer when it
\* throws before that
CtlReceive ==
    /\ ctl.pc \in {"idle", "done"}
    /\ ctl.served < MaxCtlRequests
    /\ \E body \in CtlBodies :
          LET c == [CtlIdle(ctl.cfg) EXCEPT !.body = body, !.served = ctl.served + 1]
              sheetId == SheetIdFor(ctl.cfg, body.imageType)
          IN  ctl' = IF ~body.present
                     THEN CtlThrown(c, [kind |-> "TypeError", statusCode |-> 0,
                                        message |-> "Cannot destructure property 'imageType'"])
                     ELSE IF sheetId = ""
                     THEN CtlThrown(c, HttpException("Invalid sheet configuration in FolderMapping",
                                                     BAD_REQUEST))
                     ELSE [c EXCEPT !.pc = "appendDataToWorkbookSheet", !.sheetId = sheetId]
    /\ UNCHANGED <<files, books, req, submitted, failures>>

CtlServiceReturns ==
    /\ ctl.pc = "appendDataToWorkbookSheet"
    /\ \E payload \in ServiceReturns :
          ctl' = [ctl EXCEPT !.pc = "done", !.resp = payload]
    /\ UNCHANGED <<files, books, req, submitted, failures>>

CtlServiceThrows ==
    /\ ctl.pc = "appendDataToWorkbookSheet"
    /\ \E error \in ServiceThrows : ctl' = CtlThrown(ctl, error)
    /\ UNCHANGED <<files, books, req, submitted, failures>>

InitCtl ==
    /\ files = <<>>
    /\ books = <<>>
    /\ req = [p \in Procs |-> Idle]
    /\ submitted = 0
    /\ failures = 0
    /\ \E cfg \in CtlConfigs : ctl = CtlIdle(cfg)

NextCtl == CtlReceive \/ CtlServiceReturns \/ CtlServiceThrows

SpecCtl == InitCtl /\ [][NextCtl]_vars

(***************************************************************************)
(* processSheetData                                                        *)
(***************************************************************************)
Init ==
    /\ files = <<>>
    /\ books = <<>>
    /\ req = [p \in Procs |-> Idle]
    /\ submitted = 0
    /\ failures = 0
    /\ ctl = CtlIdle([farmCollectorSheet |-> "sheetF", payslipCollectorSheet |-> "sheetP"])

\* entry, validation and folder lookup, up to the first await
SubmitFrom(p, requests) ==
    /\ req[p].pc \in {"idle", "done"}
    /\ submitted < MaxRequests
    /\ submitted' = submitted + 1
    /\ \E request \in requests :
          LET dto == request.dto
              folderType == request.folderType
              r == [Idle EXCEPT !.dto = dto, !.folderType = folderType,
                                !.folderId = FolderMapping(folderType)]
          IN  req' = [req EXCEPT ![p] =
                  IF IsInvalid(dto)
                  THEN Rejected(r, "Missing or invalid required fields")
                  ELSE IF r.folderId = ""
                  THEN Rejected(r, "Invalid folder type: " \o folderType)
                  ELSE [r EXCEPT !.pc = "searchForSpreadsheet"]]
    /\ UNCHANGED <<files, books, failures, ctl>>

Submit(p) == SubmitFrom(p, Requests)

SearchForSpreadsheetFound(p) ==
    /\ req[p].pc = "searchForSpreadsheet"
    /\ \E id \in DriveList(SpreadsheetTitle(req[p].dto.username), req[p].folderId) :
          req' = [req EXCEPT ![p] =
                    [Logged(req[p], "files.list", TRUE, <<>>) EXCEPT
                        !.spreadsheetId = id, !.pc = "getSheetNames"]]
    /\ UNCHANGED <<files, books, submitted, failures, ctl>>

SearchForSpreadsheetNone(p) ==
    /\ req[p].pc = "searchForSpreadsheet"
    /\ DriveList(SpreadsheetTitle(req[p].dto.username), req[p].folderId) = {}
    /\ req' = [req EXCEPT ![p] =
                 [Logged(req[p], "files.list", TRUE, <<>>) EXCEPT
                     !.pc = "createSpreadsheet"]]
    /\ UNCHANGED <<files, books, submitted, failures, ctl>>

SearchForSpreadsheetFail(p) ==
    /\ req[p].pc = "searchForSpreadsheet"
    /\ RemoteFails
    /\ req' = [req EXCEPT ![p] =
                 Caught(Logged(req[p], "files.list", FALSE, <<>>),
                        "Error finding or creating spreadsheet: "
                        \o "Failed to search for spreadsheet '"
                        \o SpreadsheetTitle(req[p].dto.username) \o "': "
                        \o RemoteError)]
    /\ UNCHANGED <<files, books, submitted, ctl>>

CreateSpreadsheetOk(p) ==
    /\ req[p].pc = "createSpreadsheet"
    /\ LET made == DriveCreate(SpreadsheetTitle(req[p].dto.username), req[p].folderId)
       IN  /\ files' = made.files
           /\ books' = made.books
           /\ req' = [req EXCEPT ![p] =
                        [Logged(req[p], "files.create", TRUE, <<>>) EXCEPT
                            !.spreadsheetId = made.id, !.pc = "getSheetNames"]]
    /\ UNCHANGED <<submitted, failures, ctl>>

\* findOrCreateSpreadsheet returns createSpreadsheet's promise without
\* awaiting it, so its own catch does not see this failure
CreateSpreadsheetFail(p) ==
    /\ req[p].pc = "createSpreadsheet"
    /\ RemoteFails
    /\ req' = [req EXCEPT ![p] =
                 Caught(Logged(req[p], "files.create", FALSE, <<>>),
                        "Failed to create spreadsheet '"
                        \o SpreadsheetTitle(req[p].dto.username) \o "': "
                        \o RemoteError)]
    /\ UNCHANGED <<files, books, submitted, ctl>>

\* spreadsheets.get, then the includes test and, when the tab exists,
\* mapDataToValues, all before the next await
GetSheetNamesOk(p) ==
    /\ req[p].pc = "getSheetNames"
    /\ LET names == SheetTitles(req[p].spreadsheetId)
           r == [Logged(req[p], "spreadsheets.get", TRUE, <<>>) EXCEPT
                    !.existingSheetNames = names]
       IN  req' = [req EXCEPT ![p] =
                     IF NeedsSheet(names, r.dto.imageType)
                     THEN [r EXCEPT !.pc = "createSheet"]
                     ELSE IF MapDataToValuesThrows(Data(p))
                     THEN Caught(r, "Failed to map data to values")
                     ELSE [r EXCEPT !.pc = "appendValues"]]
    /\ UNCHANGED <<files, books, submitted, failures, ctl>>

GetSheetNamesFail(p) ==
    /\ req[p].pc = "getSheetNames"
    /\ RemoteFails
    /\ req' = [req EXCEPT ![p] =
                 Caught(Logged(req[p], "spreadsheets.get", FALSE, <<>>),
                        "Failed to get sheet names: " \o RemoteError)]
    /\ UNCHANGED <<files, books, submitted, ctl>>

\* CreateSheetOk going on to the data append without the header append
CreateSheetOkNoHeaders(p) ==
    /\ req[p].pc = "createSheet"
    /\ ~Includes(SheetTitles(req[p].spreadsheetId), req[p].dto.imageType)
    /\ books' = AddSheet(req[p].spreadsheetId, req[p].dto.imageType)
    /\ LET r == Logged(req[p], "spreadsheets.batchUpdate", TRUE, <<>>)
       IN  req' = [req EXCEPT ![p] =
                     IF MapDataToValuesThrows(Data(p))
                     THEN Caught(r, "Failed to map data to values")
                     ELSE [r EXCEPT !.pc = "appendValues"]]
    /\ UNCHANGED <<files, submitted, failures, ctl>>

\* batchUpdate addSheet succeeds, then extractHeaders
CreateSheetOk(p) ==
    /\ req[p].pc = "createSheet"
    /\ ~Includes(SheetTitles(req[p].spreadsheetId), req[p].dto.imageType)
    /\ books' = AddSheet(req[p].spreadsheetId, req[p].dto.imageType)
    /\ LET r == Logged(req[p], "spreadsheets.batchUpdate", TRUE, <<>>)
       IN  req' = [req EXCEPT ![p] =
                     IF ExtractHeadersThrows(Data(p))
                     THEN Caught(r, "Failed to extract headers from the data")
                     ELSE [r EXCEPT !.pc = "appendHeaders"]]
    /\ UNCHANGED <<files, submitted, failures, ctl>>

\* CreateSheetRejected with the rejection ignored
CreateSheetRejectedIgnored(p) ==
    /\ req[p].pc = "createSheet"
    /\ Includes(SheetTitles(req[p].spreadsheetId), req[p].dto.imageType)
    /\ req' = [req EXCEPT ![p] =
                 [Logged(req[p], "spreadsheets.batchUpdate", FALSE, <<>>) EXCEPT
                     !.pc = IF ExtractHeadersThrows(Data(p)) THEN "done"
                            ELSE "appendHeaders"]]
    /\ UNCHANGED <<files, books, submitted, failures, ctl>>

\* the remote rejects an addSheet whose title the spreadsheet already has
CreateSheetRejected(p) ==
    /\ req[p].pc = "createSheet"
    /\ Includes(SheetTitles(req[p].spreadsheetId), req[p].dto.imageType)
    /\ req' = [req EXCEPT ![p] =
                 Caught(Logged(req[p], "spreadsheets.batchUpdate", FALSE, <<>>),
                        "Failed to create sheet '" \o req[p].dto.imageType
                        \o "': " \o "sheet already exists")]
    /\ UNCHANGED <<files, books, submitted, failures, ctl>>

CreateSheetFail(p) ==
    /\ req[p].pc = "createSheet"
    /\ RemoteFails
    /\ req' = [req EXCEPT ![p] =
                 Caught(Logged(req[p], "spreadsheets.batchUpdate", FALSE, <<>>),
                        "Failed to create sheet '" \o req[p].dto.imageType
                        \o "': " \o RemoteError)]
    /\ UNCHANGED <<files, books, submitted, ctl>>

\* append of [headers] succeeds, then mapDataToValues
AppendHeadersOk(p) ==
    /\ req[p].pc = "appendHeaders"
    /\ books' = AppendRows(req[p].spreadsheetId, req[p].dto.imageType,
                           HeaderRows(Data(p)))
    /\ LET r == Logged(req[p], "values.append", TRUE, <<ExtractHeaders(Data(p))>>)
       IN  req' = [req EXCEPT ![p] =
                     IF MapDataToValuesThrows(Data(p))
                     THEN Caught(r, "Failed to map data to values")
                     ELSE [r EXCEPT !.pc = "appendValues"]]
    /\ UNCHANGED <<files, submitted, failures, ctl>>

AppendHeadersFail(p) ==
    /\ req[p].pc = "appendHeaders"
    /\ RemoteFails
    /\ req' = [req EXCEPT ![p] =
                 Caught(Logged(req[p], "values.append", FALSE,
                               <<ExtractHeaders(Data(p))>>),
                        "Failed to append data to sheet '"
                        \o req[p].dto.imageType \o "': " \o RemoteError)]
    /\ UNCHANGED <<files, books, submitted, ctl>>

AppendValuesOk(p) ==
    /\ req[p].pc = "appendValues"
    /\ books' = AppendRows(req[p].spreadsheetId, req[p].dto.imageType,
                           ValueRows(Data(p)))
    /\ req' = [req EXCEPT ![p] =
                 Returned(Logged(req[p], "values.append", TRUE,
                                 MapDataToValues(Data(p))))]
    /\ UNCHANGED <<files, submitted, failures, ctl>>

AppendValuesFail(p) ==
    /\ req[p].pc = "appendValues"
    /\ RemoteFails
    /\ req' = [req EXCEPT ![p] =
                 Caught(Logged(req[p], "values.append", FALSE,
                               MapDataToValues(Data(p))),
                        "Failed to append data to sheet '"
                        \o req[p].dto.imageType \o "': " \o RemoteError)]
    /\ UNCHANGED <<files, books, submitted, ctl>>

\* the steps of a request after its entry, one remote call each (the
\* rejected addSheet, which takes another request's addSheet in between,
\* is listed in Step)
Remote(p) ==
    \/ SearchForSpreadsheetFound(p)
    \/ SearchForSpreadsheetNone(p)
    \/ SearchForSpreadsheetFail(p)
    \/ CreateSpreadsheetOk(p)
    \/ CreateSpreadsheetFail(p)
    \/ GetSheetNamesOk(p)
    \/ GetSheetNamesFail(p)
    \/ CreateSheetOk(p)
    \/ CreateSheetFail(p)
    \/ AppendHeadersOk(p)
    \/ AppendHeadersFail(p)
    \/ AppendValuesOk(p)
    \/ AppendValuesFail(p)

Step(p) == Submit(p) \/ Remote(p) \/ CreateSheetRejected(p)

\* requests handled concurrently: the awaits of different requests interleave
Next == \E p \in Procs : Step(p)

Spec == Init /\ [][Next]_vars

\* requests handled one at a time: a request enters only while no other
\* request is between its entry and its answer
Quiet(p) == \A q \in Procs \ {p} : req[q].pc \in {"idle", "done"}

SubmitSeq(p) == Quiet(p) /\ Submit(p)

\* one at a time, the tab list a request read is current at its createSheet:
\* CreateSheetRejected is never enabled
SeqTabListCurrent ==
    \A p \in Procs :
        req[p].pc = "createSheet" =>
            ~Includes(SheetTitles(req[p].spreadsheetId), req[p].dto.imageType)

NextSeq == \E p \in Procs : SubmitSeq(p) \/ Remote(p)

SpecSeq == Init /\ [][NextSeq]_vars

\* requests handled one at a time, every imageData an array of records
SubmitSeqRecords(p) == Quiet(p) /\ SubmitFrom(p, RecordRequests)

NextSeqRecords == \E p \in Procs : SubmitSeqRecords(p) \/ Remote(p)

SpecSeqRecords == Init /\ [][NextSeqRecords]_vars

(***************************************************************************)
(* Properties                                                              *)
(***************************************************************************)
HasCall(r, api) == \E i \in 1..Len(r.calls) : r.calls[i].api = api

Cells(rows) == [i \in 1..Len(rows) |-> rows[i].cells]

MissingOrInvalid(dto) ==
    \/ dto.username = ""
    \/ dto.imageType = ""
    \/ ~dto.imageData.isArray
    \/ dto.imageData.items = <<>>

\* C1: a submission whose username or imageType is missing or empty, or
\* whose imageData is not an array or is an empty array, is rejected (400)
\* in the step that receives it, with no remote call issued for it and the
\* Drive files and the spreadsheets left as they were.
C1_RejectedBeforeAnyRemoteCall ==
    [][\A p \in Procs :
          (req'[p] # req[p] /\ MissingOrInvalid(req'[p].dto)) =>
              /\ req'[p].pc = "done"
              /\ req'[p].resp.statusCode = BAD_REQUEST
              /\ req'[p].calls = <<>>
              /\ files' = files
              /\ books' = books]_vars

\* an empty imageData array has been rejected while a spreadsheet exists
C1_Witness ==
    \E p \in Procs :
        /\ req[p].pc = "done"
        /\ req[p].dto.imageData = EmptyData
        /\ req[p].resp.statusCode = BAD_REQUEST
        /\ req[p].calls = <<>>
        /\ Len(files) > 0

\* C2: with requests handled one at a time, no two spreadsheets share a
\* title and a folder; a request that has its spreadsheet id holds the id
\* of the file titled <USERNAME uppercased>_MainSheet in its folder; a
\* request creates a spreadsheet only when its search found none, and a
\* request whose search found one creates none.
C2_OneSpreadsheetPerTitleAndFolder ==
    /\ \A i, j \in 1..Len(files) :
          (files[i].name = files[j].name /\ files[i].parent = files[j].parent)
              => i = j
    /\ \A p \in Procs :
          req[p].spreadsheetId # 0 =>
              /\ req[p].spreadsheetId \in 1..Len(files)
              /\ files[req[p].spreadsheetId].name
                     = ToUpperCase(req[p].dto.username) \o "_MainSheet"
              /\ files[req[p].spreadsheetId].parent = req[p].folderId
              /\ req[p].folderId # ""

\* a later request has reused the spreadsheet an earlier one created
C2_Witness ==
    \E p, q \in Procs :
        /\ p # q
        /\ req[p].pc = "done" /\ req[p].resp.statusCode = OK
        /\ HasCall(req[p], "files.create")
        /\ req[q].pc = "done" /\ req[q].resp.statusCode = OK
        /\ ~HasCall(req[q], "files.create")
        /\ req[q].spreadsheetId = req[p].spreadsheetId
        /\ Len(files) = 1

\* C3: a request that issues the add-tab batchUpdate read a tab list
\* without its category; every call it issued before a later call
\* succeeded; the call after the batchUpdate is the append of the one
\* header row (the keys of the first record), the call after that is the
\* append of the data rows, and nothing follows.
C3_TabThenHeaderThenData ==
    \A p \in Procs :
        LET calls == req[p].calls
            data == req[p].dto.imageData.items
        IN  /\ \A i \in 1..(Len(calls) - 1) : calls[i].ok
            /\ \A i \in 1..Len(calls) :
                  calls[i].api = "spreadsheets.batchUpdate" =>
                      /\ ~Includes(req[p].existingSheetNames, req[p].dto.imageType)
                      /\ i > 1 /\ calls[i - 1].api = "spreadsheets.get"
                      /\ Len(calls) <= i + 2
                      /\ Len(calls) >= i + 1 =>
                            /\ calls[i + 1].step = "appendHeaders"
                            /\ calls[i + 1].api = "values.append"
                            /\ calls[i + 1].values = <<ObjectKeys(data[1])>>
                      /\ Len(calls) >= i + 2 =>
                            /\ calls[i + 2].step = "appendValues"
                            /\ calls[i + 2].api = "values.append"
                            /\ calls[i + 2].values = MapDataToValues(data)
            /\ (req[p].pc = "done" /\ req[p].resp.statusCode = OK
                    /\ ~Includes(req[p].existingSheetNames, req[p].dto.imageType))
                  => HasCall(req[p], "spreadsheets.batchUpdate")

\* a request has created its tab, written the header row and the data rows
C3_Witness ==
    \E p \in Procs :
        /\ req[p].pc = "done" /\ req[p].resp.statusCode = OK
        /\ Len(req[p].calls) = 5
        /\ req[p].calls[3].api = "spreadsheets.batchUpdate"
        /\ req[p].calls[4].step = "appendHeaders" /\ req[p].calls[4].ok
        /\ req[p].calls[5].step = "appendValues" /\ req[p].calls[5].ok

TabPresent(r) == Includes(r.existingSheetNames, r.dto.imageType)

TitlesOf(book) == [i \in 1..Len(book) |-> book[i].title]

\* C4: a request that read a tab list holding its category issues no
\* add-tab batchUpdate and no header append; its steps leave the Drive
\* files, the tabs of every spreadsheet and all rows already there as they
\* were, and its successful data append adds exactly its records' value
\* rows, in submission order, after the last row of its tab.
C4_ExistingTabOnlyAppends ==
    [][\A p \in Procs :
          (req'[p] # req[p] /\ TabPresent(req'[p])) =>
              LET id == req'[p].spreadsheetId
                  type == req'[p].dto.imageType
                  data == req'[p].dto.imageData.items
                  appended == req[p].pc = "appendValues"
                                  /\ req'[p].resp.statusCode = OK
              IN  /\ ~HasCall(req'[p], "spreadsheets.batchUpdate")
                  /\ \A i \in 1..Len(req'[p].calls) :
                        req'[p].calls[i].step # "appendHeaders"
                  /\ files' = files
                  /\ Len(books') = Len(books)
                  /\ \A k \in 1..Len(books) :
                        /\ TitlesOf(books'[k]) = TitlesOf(books[k])
                        /\ \A j \in 1..Len(books[k]) :
                              IF appended /\ k = id /\ books[k][j].title = type
                              THEN /\ Len(books'[k][j].rows)
                                          = Len(books[k][j].rows) + Len(data)
                                   /\ SubSeq(books'[k][j].rows, 1, Len(books[k][j].rows))
                                          = books[k][j].rows
                                   /\ \A i \in 1..Len(data) :
                                         books'[k][j].rows[Len(books[k][j].rows) + i].cells
                                             = ObjectValues(data[i])
                              ELSE books'[k][j].rows = books[k][j].rows]_vars

\* a request found its tab with a header row in it and appended below it
C4_Witness ==
    \E p \in Procs :
        /\ req[p].pc = "done" /\ req[p].resp.statusCode = OK
        /\ TabPresent(req[p])
        /\ LET rows == TabRows(books, req[p].spreadsheetId, req[p].dto.imageType)
           IN  /\ Len(rows) > Len(req[p].dto.imageData.items) + 1
               /\ rows[1].site = "headers"

SameKeys(data) ==
    \A i \in 1..Len(data) :
        data[i].isObject /\ ObjectKeys(data[i]) = ObjectKeys(data[1])

\* C5: with requests handled one at a time, a request that created its
\* tab and succeeded, with records r1..rn of the same keys in the same
\* order, leaves the tab with exactly n+1 rows: the keys of r1, then the
\* values of each ri in key order, in submission order;
\* [{a:1,b:2},{a:3,b:4}] gives ["a","b"], [1,2], [3,4].
C5_FreshTabRows ==
    [][\A p \in Procs :
          LET data == req[p].dto.imageData.items
          IN  (/\ req[p].pc = "appendValues"
               /\ HasCall(req[p], "spreadsheets.batchUpdate")
               /\ req'[p].pc = "done"
               /\ req'[p].resp.statusCode = OK
               /\ SameKeys(data)) =>
                  LET rows == Cells(TabRows(books', req[p].spreadsheetId,
                                            req[p].dto.imageType))
                  IN  /\ Len(rows) = Len(data) + 1
                      /\ rows[1] = ObjectKeys(data[1])
                      /\ \A i \in 1..Len(data) : rows[i + 1] = ObjectValues(data[i])
                      /\ req[p].dto.imageData = ExampleData =>
                            rows = << <<"a", "b">>, <<1, 2>>, <<3, 4>> >>
                      /\ req[p].dto.imageData = IndexKeyData =>
                            rows = << <<"1", "b">>, <<6, 5>> >>]_vars

\* the example submission has filled a fresh tab
C5_Witness ==
    \E p \in Procs :
        /\ req[p].pc = "done" /\ req[p].resp.statusCode = OK
        /\ req[p].dto.imageData = ExampleData
        /\ HasCall(req[p], "spreadsheets.batchUpdate")
        /\ Len(TabRows(books, req[p].spreadsheetId, req[p].dto.imageType)) = 3

\* C6: with requests handled one at a time, when the append of the data
\* rows fails in a request that created its tab and wrote the header row,
\* the request ends with status 500, the failed append is its last call,
\* Drive and the spreadsheets are left as they were, and the tab holds
\* the header row alone.
C6_FailedDataAppendKeepsHeader ==
    [][\A p \in Procs :
          (/\ req[p].pc = "appendValues"
           /\ HasCall(req[p], "spreadsheets.batchUpdate")
           /\ req'[p].pc = "done"
           /\ ~req'[p].calls[Len(req'[p].calls)].ok) =>
              LET rows == TabRows(books', req[p].spreadsheetId, req[p].dto.imageType)
              IN  /\ req'[p].resp.statusCode = INTERNAL_SERVER_ERROR
                  /\ Len(req'[p].calls) = Len(req[p].calls) + 1
                  /\ files' = files
                  /\ books' = books
                  /\ Len(rows) = 1
                  /\ rows[1].site = "headers"
                  /\ rows[1].cells = ObjectKeys(req[p].dto.imageData.items[1])]_vars

\* a data append has failed after the tab and its header row were written
C6_Witness ==
    \E p \in Procs :
        /\ req[p].pc = "done"
        /\ req[p].resp.statusCode = INTERNAL_SERVER_ERROR
        /\ Len(req[p].calls) = 5
        /\ req[p].calls[3].api = "spreadsheets.batchUpdate"
        /\ req[p].calls[4].step = "appendHeaders" /\ req[p].calls[4].ok
        /\ req[p].calls[5].step = "appendValues" /\ ~req[p].calls[5].ok
        /\ Len(TabRows(books, req[p].spreadsheetId, req[p].dto.imageType)) = 1

\* C7: whatever is thrown inside appendToSheet (a missing body, the
\* handler's own 400 for a missing sheet id, any throw of the service) is
\* answered with status 500 and the fixed message; the caller never gets
\* a 400 nor the message of what was thrown.
C7_ControllerAlwaysAnswers500 ==
    /\ ctl.resp.statusCode # BAD_REQUEST
    /\ ctl.error.kind # "none" =>
          /\ ctl.pc = "done"
          /\ ctl.resp.statusCode = INTERNAL_SERVER_ERROR
          /\ ctl.resp.message = "An error occurred while processing the request"
          /\ ctl.resp.message # ctl.error.message
          /\ ctl.logged = ctl.error.message

\* the handler's own 400 for a missing sheet id has been answered
C7_Witness ==
    /\ ctl.pc = "done"
    /\ ctl.body.present
    /\ ctl.error = HttpException("Invalid sheet configuration in FolderMapping",
                                 BAD_REQUEST)
    /\ ctl.resp.statusCode = INTERNAL_SERVER_ERROR

CreatedOwnSpreadsheet(r) ==
    /\ Len(r.calls) >= 2
    /\ r.calls[1].api = "files.list" /\ r.calls[1].ok
    /\ r.calls[2].api = "files.create" /\ r.calls[2].ok

\* C8: when two requests for the same title and folder have both searched
\* without a match and both created a spreadsheet, they hold different
\* spreadsheet ids, each the id of a file with that title in that folder:
\* two spreadsheets of the same title exist in the folder.
C8_RaceCreatesTwoSpreadsheets ==
    \A p, q \in Procs :
        (/\ p # q
         /\ CreatedOwnSpreadsheet(req[p])
         /\ CreatedOwnSpreadsheet(req[q])
         /\ ToUpperCase(req[p].dto.username) = ToUpperCase(req[q].dto.username)
         /\ req[p].folderId = req[q].folderId) =>
            /\ req[p].spreadsheetId # req[q].spreadsheetId
            /\ \A id \in {req[p].spreadsheetId, req[q].spreadsheetId} :
                  /\ id \in 1..Len(files)
                  /\ files[id].name = ToUpperCase(req[p].dto.username) \o "_MainSheet"
                  /\ files[id].parent = req[p].folderId

\* two concurrent first requests have left two spreadsheets of one title
\* in one folder
C8_Witness ==
    /\ \E p, q \in Procs :
          /\ p # q
          /\ CreatedOwnSpreadsheet(req[p])
          /\ CreatedOwnSpreadsheet(req[q])
    /\ \E i, j \in 1..Len(files) :
          /\ i # j
          /\ files[i].name = files[j].name
          /\ files[i].parent = files[j].parent

\* C9: every tab created by processSheetData that holds a data row has as
\* its first row the header row made of the keys of its first data record,
\* and only data rows below it.
C9_HeaderAboveData ==
    \A id \in 1..Len(books) : \A j \in 1..Len(books[id]) :
        LET rows == books[id][j].rows
        IN  (/\ books[id][j].title # "Sheet1"
             /\ \E i \in 1..Len(rows) : rows[i].site = "values") =>
                /\ rows[1].site = "headers"
                /\ \A i \in 2..Len(rows) : rows[i].site = "values"
                /\ rows[1].cells = rows[2].keys

HeaderCount(rows) == Cardinality({i \in 1..Len(rows) : rows[i].site = "headers"})

\* C10: with the remote rejecting an addSheet of an existing title, no tab
\* holds more than one header row, and a request whose createSheet failed
\* has issued no append.
C10_AtMostOneHeaderRow ==
    /\ \A id \in 1..Len(books) : \A j \in 1..Len(books[id]) :
          HeaderCount(books[id][j].rows) <= 1
    /\ \A p \in Procs : \A i \in 1..Len(req[p].calls) :
          (req[p].calls[i].api = "spreadsheets.batchUpdate" /\ ~req[p].calls[i].ok) =>
              /\ req[p].pc = "done"
              /\ ~HasCall(req[p], "values.append")

\* a request that read the tab list before another request created the tab
\* has been rejected at createSheet, and the tab holds one header row
C10_Witness ==
    \E p \in Procs :
        /\ req[p].pc = "done"
        /\ failures = 0
        /\ Len(req[p].calls) > 0
        /\ req[p].calls[Len(req[p].calls)].api = "spreadsheets.batchUpdate"
        /\ ~req[p].calls[Len(req[p].calls)].ok
        /\ ~TabPresent(req[p])
        /\ HeaderCount(TabRows(books, req[p].spreadsheetId, req[p].dto.imageType)) = 1

====
